---- MODULE Spec2Model ----
(***************************************************************************)
(* Masterblog API: the PostManager record store (backend_app.py), its JSON *)
(* persistence, the /api/v1 request handlers and the flask-limiter gate    *)
(* configured in front of them.                                            *)
(*                                                                         *)
(* Text is modelled as a sequence of one-character strings, so that        *)
(* str.strip() is computed character by character.  A date object is a     *)
(* record [y, m, d]; strftime("%Y-%m-%d") turns it into the ten characters *)
(* the store keeps.                                                        *)
(***************************************************************************)
EXTENDS Integers, Sequences, FiniteSets, TLC

VARIABLES
    posts,      \* PostManager.posts: the in-memory list of post dicts
    disk,       \* the content of Config.STORAGE_FILE
    call,       \* the operation last invoked, with its arguments
    ret,        \* what that operation returned (or raised)
    writes,     \* how many times that operation completed save_posts
    hits,       \* limiter storage: request counter per (client, endpoint)
    expiry,     \* limiter storage: when each counter's window ends
    now,        \* wall clock, in seconds
    th,         \* request threads of the threaded server: position and locals
    faults,     \* how many save_posts calls have failed so far
    heap,       \* SpecConc: the post dicts, by object identity
    debug,      \* app.config["DEBUG"], read from the environment at start-up
    retired     \* the ids a call has removed while a larger id was in the list

vars == <<posts, disk, call, ret, writes, hits, expiry, now, th, faults, heap, debug,
          retired>>

----------------------------------------------------------------------------
(* Bounds of the model *)

\* Spec: most posts held at once, and the largest id handed out
MaxPosts == 3
MaxId == 4
\* how many save_posts calls may fail in one run
MaxFaults == 1
\* SpecFields: most posts held at once, and the largest id handed out
MaxFieldPosts == 1
MaxFieldId == 2
\* SpecConc: how many requests the threaded server handles at once
NThreads == 2
\* SpecPages: most posts in the collection that is listed
MaxListed == 11
\* SpecApi: most posts held at once and the largest id handed out, how many
\* half windows the clock runs, and how many requests past the limit a
\* client sends in one window
MaxApiPosts == 2
MaxApiId == 2
MaxTicks == 2
MaxOver == 1
\* SpecApi: how many requests the second client sends in one window
MaxOther == 2
\* SpecViews: most posts held at once, and the largest id handed out
MaxViewPosts == 2
MaxViewId == 2

----------------------------------------------------------------------------
(* Python values *)

\* the None default of update_post's keyword arguments
None == <<"None">>
NoDate == [y |-> 0, m |-> 0, d |-> 0]

\* truthiness of a str-or-None argument: None and "" are falsy
Truthy(s) == s # None /\ s # <<>>

\* truthiness of a date-or-None argument: every date object is truthy
TruthyDate(dt) == dt # NoDate

IsSpace(c) == c = " "

RECURSIVE LStrip(_)
LStrip(s) ==
    IF s = <<>> THEN <<>>
    ELSE IF IsSpace(Head(s)) THEN LStrip(Tail(s)) ELSE s

RECURSIVE RStrip(_)
RStrip(s) ==
    IF s = <<>> THEN <<>>
    ELSE IF IsSpace(s[Len(s)]) THEN RStrip(SubSeq(s, 1, Len(s) - 1)) ELSE s

\* str.strip()
Strip(s) == RStrip(LStrip(s))

Digit(n) ==
    CASE n = 0 -> "0" [] n = 1 -> "1" [] n = 2 -> "2" [] n = 3 -> "3"
      [] n = 4 -> "4" [] n = 5 -> "5" [] n = 6 -> "6" [] n = 7 -> "7"
      [] n = 8 -> "8" [] n = 9 -> "9"

\* date.strftime("%Y-%m-%d"): zero-padded year, month and day
Strftime(dt) ==
    << Digit((dt.y \div 1000) % 10), Digit((dt.y \div 100) % 10),
       Digit((dt.y \div 10) % 10), Digit(dt.y % 10), "-",
       Digit((dt.m \div 10) % 10), Digit(dt.m % 10), "-",
       Digit((dt.d \div 10) % 10), Digit(dt.d % 10) >>

\* max(iterable, default=dflt)
MaxOf(S, dflt) ==
    IF S = {} THEN dflt
    ELSE LET x == CHOOSE e \in S : \A f \in S : f <= e IN x

Ids(ps) == {ps[i].id : i \in 1..Len(ps)}

----------------------------------------------------------------------------
(* Persistence: load_posts / save_posts *)

FileOf(ps) == [ok |-> TRUE, data |-> ps]
NoFile == [ok |-> FALSE, data |-> <<>>]

\* load_posts: a missing or undecodable file gives the empty list
load_posts(file) == IF file.ok THEN file.data ELSE <<>>

\* What a save_posts call can do: write the whole list; fail in open(), which
\* leaves the file as it was; or fail inside json.dump after open(..., 'w') has
\* truncated the file, which leaves text json.load cannot decode.
IoOutcomes == {"ok", "open_fails", "dump_fails"}

save_posts(ps, file, io) ==
    CASE io = "ok" -> FileOf(ps)
      [] io = "open_fails" -> file
      [] io = "dump_fails" -> NoFile

----------------------------------------------------------------------------
(* PostManager: each method as a function of the list it finds.  The result  *)
(* is the list it leaves, whether it goes on to save_posts, and what it      *)
(* returns when the save succeeds.                                           *)

\* add_post numbering by the length of the list instead of its largest id
add_post_by_length(ps, title, content, author, date) ==
    LET new_post == [id |-> Len(ps) + 1,
                     title |-> Strip(title),
                     content |-> Strip(content),
                     author |-> Strip(author),
                     date |-> Strftime(date)]
    IN [posts |-> Append(ps, new_post),
        save |-> TRUE,
        ret |-> [kind |-> "post", code |-> 200, body |-> new_post]]

\* add_post giving the new post the lowest id no post has
add_post_lowest_free(ps, title, content, author, date) ==
    LET new_id == CHOOSE n \in 1..(Len(ps) + 1) :
                      /\ n \notin Ids(ps)
                      /\ \A k \in 1..(n - 1) : k \in Ids(ps)
        new_post == [id |-> new_id,
                     title |-> Strip(title),
                     content |-> Strip(content),
                     author |-> Strip(author),
                     date |-> Strftime(date)]
    IN [posts |-> Append(ps, new_post),
        save |-> TRUE,
        ret |-> [kind |-> "post", code |-> 200, body |-> new_post]]

add_post(ps, title, content, author, date) ==
    LET new_id == MaxOf(Ids(ps), 0) + 1
        new_post == [id |-> new_id,
                     title |-> Strip(title),
                     content |-> Strip(content),
                     author |-> Strip(author),
                     date |-> Strftime(date)]
    IN [posts |-> Append(ps, new_post),
        save |-> TRUE,
        ret |-> [kind |-> "post", code |-> 200, body |-> new_post]]

\* delete_post saving whether or not it removed anything
delete_post_always_saves(ps, post_id) ==
    LET kept == SelectSeq(ps, LAMBDA p : p.id # post_id)
    IN IF Len(kept) < Len(ps)
       THEN [posts |-> kept, save |-> TRUE,
             ret |-> [kind |-> "message", code |-> 200, body |-> post_id]]
       ELSE [posts |-> kept, save |-> TRUE,
             ret |-> [kind |-> "error", code |-> 404, body |-> post_id]]

\* delete_post keeping only the posts below the id
delete_post_below(ps, post_id) ==
    LET kept == SelectSeq(ps, LAMBDA p : p.id < post_id)
    IN IF Len(kept) < Len(ps)
       THEN [posts |-> kept, save |-> TRUE,
             ret |-> [kind |-> "message", code |-> 200, body |-> post_id]]
       ELSE [posts |-> kept, save |-> FALSE,
             ret |-> [kind |-> "error", code |-> 404, body |-> post_id]]

delete_post(ps, post_id) ==
    LET kept == SelectSeq(ps, LAMBDA p : p.id # post_id)
    IN IF Len(kept) < Len(ps)
       THEN [posts |-> kept, save |-> TRUE,
             ret |-> [kind |-> "message", code |-> 200, body |-> post_id]]
       ELSE [posts |-> kept, save |-> FALSE,
             ret |-> [kind |-> "error", code |-> 404, body |-> post_id]]

\* update_post returning without save_posts
update_post_unsaved(ps, post_id, title, content, author, date) ==
    IF \E i \in 1..Len(ps) : ps[i].id = post_id
    THEN LET i == CHOOSE k \in 1..Len(ps) :
                    /\ ps[k].id = post_id
                    /\ \A j \in 1..(k - 1) : ps[j].id # post_id
             post == [id |-> ps[i].id,
                      title |-> IF Truthy(title) THEN Strip(title) ELSE ps[i].title,
                      content |-> IF Truthy(content) THEN Strip(content) ELSE ps[i].content,
                      author |-> IF Truthy(author) THEN Strip(author) ELSE ps[i].author,
                      date |-> IF TruthyDate(date) THEN Strftime(date) ELSE ps[i].date]
         IN [posts |-> [ps EXCEPT ![i] = post], save |-> FALSE,
             ret |-> [kind |-> "post", code |-> 200, body |-> post]]
    ELSE [posts |-> ps, save |-> FALSE,
          ret |-> [kind |-> "error", code |-> 404, body |-> post_id]]

\* update_post writing into the first post of the list, whichever post matched
update_post_first(ps, post_id, title, content, author, date) ==
    IF \E i \in 1..Len(ps) : ps[i].id = post_id
    THEN LET post == [id |-> ps[1].id,
                      title |-> IF Truthy(title) THEN Strip(title) ELSE ps[1].title,
                      content |-> IF Truthy(content) THEN Strip(content) ELSE ps[1].content,
                      author |-> IF Truthy(author) THEN Strip(author) ELSE ps[1].author,
                      date |-> IF TruthyDate(date) THEN Strftime(date) ELSE ps[1].date]
         IN [posts |-> [ps EXCEPT ![1] = post], save |-> TRUE,
             ret |-> [kind |-> "post", code |-> 200, body |-> post]]
    ELSE [posts |-> ps, save |-> FALSE,
          ret |-> [kind |-> "error", code |-> 404, body |-> post_id]]

update_post(ps, post_id, title, content, author, date) ==
    IF \E i \in 1..Len(ps) : ps[i].id = post_id
    THEN LET i == CHOOSE k \in 1..Len(ps) :
                    /\ ps[k].id = post_id
                    /\ \A j \in 1..(k - 1) : ps[j].id # post_id
             post == [id |-> ps[i].id,
                      title |-> IF Truthy(title) THEN Strip(title) ELSE ps[i].title,
                      content |-> IF Truthy(content) THEN Strip(content) ELSE ps[i].content,
                      author |-> IF Truthy(author) THEN Strip(author) ELSE ps[i].author,
                      date |-> IF TruthyDate(date) THEN Strftime(date) ELSE ps[i].date]
         IN [posts |-> [ps EXCEPT ![i] = post], save |-> TRUE,
             ret |-> [kind |-> "post", code |-> 200, body |-> post]]
    ELSE [posts |-> ps, save |-> FALSE,
          ret |-> [kind |-> "error", code |-> 404, body |-> post_id]]

\* Finish undoing the change when save_posts raises
FinishWithRollback(c, r, io) ==
    /\ (io # "ok") => (r.save /\ faults < MaxFaults)
    /\ faults' = IF io # "ok" THEN faults + 1 ELSE faults
    /\ call' = c
    /\ posts' = IF r.save /\ io # "ok" THEN posts ELSE r.posts
    /\ disk' = IF r.save THEN save_posts(r.posts, disk, io) ELSE disk
    /\ writes' = IF r.save /\ io = "ok" THEN 1 ELSE 0
    /\ ret' = IF r.save /\ io # "ok"
              THEN [kind |-> "raised", code |-> 500, body |-> 0] ELSE r.ret
    /\ retired' = retired \cup {i \in Ids(posts) \ Ids(r.posts) : i < MaxOf(Ids(posts), 0)}

\* An uncaught exception of save_posts leaves the method without a return value
Raised == [kind |-> "raised", code |-> 500, body |-> 0]

\* The state a method leaves: the list it built, the file after its save (if
\* it saves), and its return value or the exception.  The list is changed
\* before save_posts runs, and nothing undoes the change when save_posts raises.
\* An id that leaves the list while a larger id is in it is noted in retired.
Finish(c, r, io) ==
    /\ (io # "ok") => (r.save /\ faults < MaxFaults)
    /\ faults' = IF io # "ok" THEN faults + 1 ELSE faults
    /\ call' = c
    /\ posts' = r.posts
    /\ disk' = IF r.save THEN save_posts(r.posts, disk, io) ELSE disk
    /\ writes' = IF r.save /\ io = "ok" THEN 1 ELSE 0
    /\ ret' = IF r.save /\ io # "ok" THEN Raised ELSE r.ret
    /\ retired' = retired \cup {i \in Ids(posts) \ Ids(r.posts) : i < MaxOf(Ids(posts), 0)}

----------------------------------------------------------------------------
(* Spec: the record store under calls made one at a time *)

D1 == [y |-> 2024, m |-> 1, d |-> 5]
D2 == [y |-> 2024, m |-> 2, d |-> 1]

\* arguments of add_post
StoreAddArgs ==
    { [title |-> <<" ", "a">>, content |-> <<"a", " ">>, author |-> <<"a">>, date |-> D1] }

\* arguments of update_post
StoreUpdateArgs ==
    { [title |-> <<"b", " ">>, content |-> <<>>, author |-> None, date |-> D2] }

NoCall == [op |-> "none", id |-> 0, args |-> <<>>]

NoRet == [kind |-> "none", code |-> 0, body |-> 0]

Idle == [i \in {} |-> 0]

\* the limiter's storage is empty, and DEBUG has its default, "True"
InitLimiter ==
    /\ hits = Idle
    /\ expiry = Idle
    /\ now = 0
    /\ debug = TRUE

InitStore(files) ==
    /\ disk \in files
    /\ posts = load_posts(disk)
    /\ call = NoCall
    /\ ret = NoRet
    /\ writes = 0
    /\ faults = 0
    /\ retired = {}

\* a post as add_post stored it in an earlier run of the service
Stored(id) ==
    [id |-> id, title |-> <<"a">>, content |-> <<"a">>, author |-> <<"a">>,
     date |-> Strftime(D1)]

\* The storage file at start-up: missing, the empty list, or the list an
\* earlier run left after three adds and the deletion of post 2
StoreFiles == {NoFile, FileOf(<<>>), FileOf(<<Stored(1), Stored(3)>>)}

Init ==
    /\ InitStore(StoreFiles)
    /\ InitLimiter
    /\ th = Idle
    /\ heap = Idle

AddPost(Args, Ios, maxPosts, maxId) ==
    \E a \in Args, io \in Ios :
        /\ Len(posts) < maxPosts
        /\ MaxOf(Ids(posts), 0) < maxId
        /\ Finish([op |-> "add", id |-> 0, args |-> a],
                  add_post(posts, a.title, a.content, a.author, a.date), io)
        /\ UNCHANGED <<hits, expiry, now, th, heap, debug>>

DeletePost(Ios, maxId) ==
    \E id \in 1..maxId, io \in Ios :
        /\ Finish([op |-> "delete", id |-> id, args |-> <<>>],
                  delete_post(posts, id), io)
        /\ UNCHANGED <<hits, expiry, now, th, heap, debug>>

UpdatePost(Args, Ios, maxId) ==
    \E id \in 1..maxId, a \in Args, io \in Ios :
        /\ Finish([op |-> "update", id |-> id, args |-> a],
                  update_post(posts, id, a.title, a.content, a.author, a.date), io)
        /\ UNCHANGED <<hits, expiry, now, th, heap, debug>>

Next ==
    \/ AddPost(StoreAddArgs, IoOutcomes, MaxPosts, MaxId)
    \/ DeletePost(IoOutcomes, MaxId)
    \/ UpdatePost(StoreUpdateArgs, IoOutcomes, MaxId)

Spec == Init /\ [][Next]_vars

----------------------------------------------------------------------------
(* SpecFields: the record store under updates that supply, omit, empty or  *)
(* blank each text field independently; every save succeeds                *)

\* a text argument of update_post: omitted, empty, blank, or text to trim
FieldTexts == {None, <<>>, <<" ">>, <<" ", "b", " ">>}

\* arguments of update_post: at most one text field supplied, or the same
\* text for all three
FieldUpdateArgs ==
    { a \in [title : FieldTexts, content : FieldTexts, author : FieldTexts,
             date : {NoDate}] :
        \/ Cardinality({f \in {"title", "content", "author"} : a[f] # None}) <= 1
        \/ (a.title = a.content /\ a.content = a.author) }

FieldFiles == {NoFile, FileOf(<<Stored(1)>>)}

InitFields ==
    /\ InitStore(FieldFiles)
    /\ InitLimiter
    /\ th = Idle
    /\ heap = Idle

NextFields ==
    \/ AddPost(StoreAddArgs, {"ok"}, MaxFieldPosts, MaxFieldId)
    \/ DeletePost({"ok"}, MaxFieldId)
    \/ UpdatePost(FieldUpdateArgs, {"ok"}, MaxFieldId)

SpecFields == InitFields /\ [][NextFields]_vars

----------------------------------------------------------------------------
(* get_posts_v1: the sorted, paginated listing *)

\* request.args.get(name): the parameter is not in the query string
Absent == <<"Absent">>

\* code points of the characters of the model (Python compares str by them)
Ord(c) ==
    CASE c = " " -> 32 [] c = "-" -> 45
      [] c = "0" -> 48 [] c = "1" -> 49 [] c = "2" -> 50 [] c = "3" -> 51
      [] c = "4" -> 52 [] c = "5" -> 53 [] c = "6" -> 54 [] c = "7" -> 55
      [] c = "8" -> 56 [] c = "9" -> 57
      [] c = "A" -> 65 [] c = "B" -> 66 [] c = "D" -> 68 [] c = "T" -> 84
      [] c = "a" -> 97 [] c = "b" -> 98 [] c = "c" -> 99 [] c = "d" -> 100
      [] c = "e" -> 101 [] c = "h" -> 104 [] c = "i" -> 105 [] c = "l" -> 108
      [] c = "n" -> 110 [] c = "o" -> 111 [] c = "r" -> 114 [] c = "s" -> 115
      [] c = "t" -> 116 [] c = "u" -> 117 [] c = "x" -> 120

LowerChar(c) ==
    CASE c = "A" -> "a" [] c = "B" -> "b" [] c = "D" -> "d" [] c = "T" -> "t"
      [] OTHER -> c

\* str.lower()
Lower(s) == [i \in 1..Len(s) |-> LowerChar(s[i])]

RECURSIVE StrLess(_, _)
\* a < b for two str
StrLess(a, b) ==
    IF b = <<>> THEN FALSE
    ELSE IF a = <<>> THEN TRUE
    ELSE IF Ord(Head(a)) # Ord(Head(b)) THEN Ord(Head(a)) < Ord(Head(b))
    ELSE StrLess(Tail(a), Tail(b))

IsDigit(c) == c \in {"0", "1", "2", "3", "4", "5", "6", "7", "8", "9"}

RECURSIVE DigitsValue(_)
DigitsValue(s) ==
    IF s = <<>> THEN 0
    ELSE 10 * DigitsValue(SubSeq(s, 1, Len(s) - 1)) + (Ord(s[Len(s)]) - 48)

\* whether int(s) succeeds: an optional sign and at least one digit
IsInt(s) ==
    LET digits == IF s # <<>> /\ Head(s) = "-" THEN Tail(s) ELSE s
    IN digits # <<>> /\ \A i \in 1..Len(digits) : IsDigit(digits[i])

\* int(s)
ParseInt(s) ==
    IF Head(s) = "-" THEN 0 - DigitsValue(Tail(s)) ELSE DigitsValue(s)

\* integer division that rounds down where math.ceil rounds up
FloorDiv(a, b) == IF b > 0 THEN a \div b ELSE 0 - (a \div (0 - b))

\* math.ceil(a / b) for a >= 0 and b # 0
Ceil(a, b) ==
    IF b > 0 THEN (a + b - 1) \div b ELSE 0 - (a \div (0 - b))

\* a slice that takes the element at end as well
SliceInclusive(seq, start, end) ==
    LET n == Len(seq)
        clamp(i) == IF i < 0 THEN (IF i + n < 0 THEN 0 ELSE i + n)
                    ELSE IF i > n THEN n ELSE i
    IN SubSeq(seq, clamp(start) + 1, clamp(end + 1))

\* seq[start:end]
Slice(seq, start, end) ==
    LET n == Len(seq)
        clamp(i) == IF i < 0 THEN (IF i + n < 0 THEN 0 ELSE i + n)
                    ELSE IF i > n THEN n ELSE i
    IN SubSeq(seq, clamp(start) + 1, clamp(end))

RECURSIVE Sorted(_, _, _)
\* sorted(seq, key=lambda post: post.get(field, ""), reverse=reverse): stable
\* in both directions
Sorted(seq, field, reverse) ==
    IF seq = <<>> THEN <<>>
    ELSE LET n == Len(seq)
             x == seq[n]
             rest == Sorted(SubSeq(seq, 1, n - 1), field, reverse)
             \* x goes after every element that does not come after it
             stays(p) == IF reverse THEN ~StrLess(p[field], x[field])
                         ELSE ~StrLess(x[field], p[field])
             k == Cardinality({i \in 1..Len(rest) : stays(rest[i])})
         IN SubSeq(rest, 1, k) \o <<x>> \o SubSeq(rest, k + 1, Len(rest))

SortFields == { <<"t", "i", "t", "l", "e">>, <<"c", "o", "n", "t", "e", "n", "t">>,
                <<"a", "u", "t", "h", "o", "r">>, <<"d", "a", "t", "e">> }

FieldName(s) ==
    CASE s = <<"t", "i", "t", "l", "e">> -> "title"
      [] s = <<"c", "o", "n", "t", "e", "n", "t">> -> "content"
      [] s = <<"a", "u", "t", "h", "o", "r">> -> "author"
      [] s = <<"d", "a", "t", "e">> -> "date"

Error(code, what) == [kind |-> "error", code |-> code, body |-> what]

\* the view function: the response to GET /api/v1/posts with the raw query
\* parameters q.page, q.per_page, q.sort, q.direction (Absent when not given)
get_posts_v1(ps, q) ==
    IF (q.page # Absent /\ ~IsInt(q.page)) \/ (q.per_page # Absent /\ ~IsInt(q.per_page))
    THEN Raised
    ELSE
    LET page_num == IF q.page = Absent THEN 1 ELSE ParseInt(q.page)
        items_per_page == IF q.per_page = Absent THEN 5 ELSE ParseInt(q.per_page)
        sort_field == IF q.sort = Absent THEN <<>> ELSE Lower(Strip(q.sort))
        sort_direction == IF q.direction = Absent THEN <<>> ELSE Lower(Strip(q.direction))
    IN
    IF sort_field # <<>> /\ sort_field \notin SortFields
    THEN Error(400, "Invalid sort field")
    ELSE IF sort_direction # <<>> /\ sort_direction \notin {<<"a", "s", "c">>, <<"d", "e", "s", "c">>}
    THEN Error(400, "Invalid sort direction")
    ELSE
    LET sorted_posts == IF sort_field # <<>>
                        THEN Sorted(ps, FieldName(sort_field),
                                    sort_direction = <<"d", "e", "s", "c">>)
                        ELSE ps
        total_posts == Len(sorted_posts)
    IN
    IF items_per_page = 0
    THEN Raised
    ELSE
    LET c == Ceil(total_posts, items_per_page)
        total_pages == IF c = 0 THEN 1 ELSE c
        start_index == (page_num - 1) * items_per_page
        end_index == start_index + items_per_page
    IN
    IF page_num < 1 \/ page_num > total_pages
    THEN Error(400, "Invalid page number")
    ELSE [kind |-> "page", code |-> 200,
          body |-> [page |-> page_num,
                    per_page |-> items_per_page,
                    total_posts |-> total_posts,
                    total_pages |-> total_pages,
                    posts |-> Slice(sorted_posts, start_index, end_index)]]

----------------------------------------------------------------------------
(* SpecPages: listings of collections of up to MaxListed posts *)

PageTitles == << <<"b">>, <<"a">>, <<"B">> >>

\* the arguments of the i-th add_post call that filled the collection
ListedArgs(i) ==
    [title |-> PageTitles[(i % 3) + 1], content |-> <<"a">>, author |-> <<"a">>,
     date |-> IF i % 2 = 0 THEN D1 ELSE D2]

RECURSIVE Listed(_)
\* the collection after n add_post calls on the empty collection
Listed(n) ==
    IF n = 0 THEN <<>>
    ELSE LET a == ListedArgs(n)
         IN add_post(Listed(n - 1), a.title, a.content, a.author, a.date).posts

PageInputs == {Absent, <<"0">>, <<"1">>, <<"2">>, <<"3">>, <<"4">>, <<"1", "2">>, <<"x">>}

PerPageInputs == {Absent, <<"0">>, <<"1">>, <<"2">>, <<"3">>, <<"1", "1">>, <<"-", "5">>}

SortInputs == {Absent, <<" ", "T", "i", "t", "l", "e">>, <<"d", "a", "t", "e">>, <<"i", "d">>}

DirectionInputs == {Absent, <<"D", "e", "s", "c", " ">>, <<"a", "s", "c">>, <<"u", "x">>}

\* every page and page size of the unsorted listing, and every sort and
\* direction on the first two pages of five or three posts
Queries ==
    { q \in [page : PageInputs, per_page : PerPageInputs, sort : SortInputs,
             direction : DirectionInputs] :
        \/ (q.sort = Absent /\ q.direction = Absent)
        \/ (q.page \in {Absent, <<"2">>} /\ q.per_page \in {Absent, <<"3">>}) }

InitPages ==
    /\ \E n \in 0..MaxListed : disk = FileOf(Listed(n))
    /\ posts = load_posts(disk)
    /\ call = NoCall
    /\ ret = NoRet
    /\ writes = 0
    /\ faults = 0
    /\ retired = {}
    /\ InitLimiter
    /\ th = Idle
    /\ heap = Idle

\* the view function answers a request; it neither changes nor saves the list
GetPosts(Qs) ==
    \E q \in Qs :
        /\ call' = [op |-> "list", id |-> 0, args |-> q]
        /\ ret' = get_posts_v1(posts, q)
        /\ writes' = 0
        /\ UNCHANGED <<posts, disk, faults, hits, expiry, now, th, heap, debug, retired>>

NextPages == GetPosts(Queries)

SpecPages == InitPages /\ [][NextPages]_vars

----------------------------------------------------------------------------
(* PostSchema and the view functions of the other routes *)

\* str.split("-") of the text after the year: the month and the day
MonthPart(s) == IF Len(s) >= 7 /\ s[7] = "-" THEN SubSeq(s, 6, 6) ELSE SubSeq(s, 6, 7)
DayPart(s) == IF Len(s) >= 7 /\ s[7] = "-" THEN SubSeq(s, 8, Len(s)) ELSE SubSeq(s, 9, Len(s))

AllDigits(s) == \A i \in 1..Len(s) : IsDigit(s[i])

DaysIn(y, m) ==
    IF m \in {4, 6, 9, 11} THEN 30
    ELSE IF m # 2 THEN 31
    ELSE IF (y % 4 = 0 /\ y % 100 # 0) \/ y % 400 = 0 THEN 29 ELSE 28

\* whether datetime.strptime(s, "%Y-%m-%d") succeeds: four digits, "-", one
\* or two digits of a month, "-", one or two digits of a day of that month
IsDate(s) ==
    /\ Len(s) >= 8 /\ Len(s) <= 10
    /\ AllDigits(SubSeq(s, 1, 4)) /\ s[5] = "-"
    /\ (s[7] = "-" \/ s[8] = "-")
    /\ LET mm == MonthPart(s)
           dd == DayPart(s)
       IN /\ Len(mm) \in {1, 2} /\ AllDigits(mm)
          /\ Len(dd) \in {1, 2} /\ AllDigits(dd)
          /\ DigitsValue(SubSeq(s, 1, 4)) >= 1
          /\ DigitsValue(mm) \in 1..12
          /\ DigitsValue(dd) >= 1
          /\ DigitsValue(dd) <= DaysIn(DigitsValue(SubSeq(s, 1, 4)), DigitsValue(mm))

\* fields.Date(format="%Y-%m-%d") deserialization
ParseDate(s) ==
    [y |-> DigitsValue(SubSeq(s, 1, 4)), m |-> DigitsValue(MonthPart(s)),
     d |-> DigitsValue(DayPart(s))]

\* whether post_schema.load(json, partial=partial) succeeds: every field is
\* required unless partial, and a date must parse; any str is a valid Str
SchemaAccepts(json, partial) ==
    /\ partial \/ \A f \in {"title", "content", "author", "date"} : json[f] # Absent
    /\ json.date = Absent \/ IsDate(json.date)

\* a keyword argument of update_post: the loaded value, or the default None
StrArg(v) == IF v = Absent THEN None ELSE v
DateArg(v) == IF v = Absent THEN NoDate ELSE ParseDate(v)

Unchanged(ps, r) == [posts |-> ps, save |-> FALSE, ret |-> r]

add_post_v1(ps, json) ==
    IF ~SchemaAccepts(json, FALSE)
    THEN Unchanged(ps, Error(400, "ValidationError"))
    ELSE LET r == add_post(ps, json.title, json.content, json.author, ParseDate(json.date))
         IN [r EXCEPT !.ret.code = 201]

delete_post_v1(ps, post_id) == delete_post(ps, post_id)

update_post_v1(ps, post_id, json) ==
    IF ~SchemaAccepts(json, TRUE)
    THEN Unchanged(ps, Error(400, "ValidationError"))
    ELSE update_post(ps, post_id, StrArg(json.title), StrArg(json.content),
                     StrArg(json.author), DateArg(json.date))

get_post_by_id(ps, post_id) ==
    IF \E i \in 1..Len(ps) : ps[i].id = post_id
    THEN LET i == CHOOSE k \in 1..Len(ps) :
                    /\ ps[k].id = post_id
                    /\ \A j \in 1..(k - 1) : ps[j].id # post_id
         IN Unchanged(ps, [kind |-> "post", code |-> 200, body |-> ps[i]])
    ELSE Unchanged(ps, Error(404, post_id))

\* sub in s, for two str
Contains(sub, s) ==
    \E i \in 0..(Len(s) - Len(sub)) : SubSeq(s, i + 1, i + Len(sub)) = sub

\* search_posts comparing the lower-cased term with the field as stored
search_posts_case_sensitive(ps, query, title, content, author, date) ==
    LET r1 == IF query # <<>>
              THEN SelectSeq(ps, LAMBDA p :
                       \/ Contains(Lower(query), p.title)
                       \/ Contains(Lower(query), p.content)
                       \/ Contains(Lower(query), p.author)
                       \/ Contains(Lower(query), p.date))
              ELSE ps
        r2 == IF title # <<>>
              THEN SelectSeq(r1, LAMBDA p : Contains(Lower(title), p.title))
              ELSE r1
        r3 == IF content # <<>>
              THEN SelectSeq(r2, LAMBDA p : Contains(Lower(content), p.content))
              ELSE r2
        r4 == IF author # <<>>
              THEN SelectSeq(r3, LAMBDA p : Contains(Lower(author), p.author))
              ELSE r3
    IN IF date # <<>>
       THEN SelectSeq(r4, LAMBDA p : Contains(Lower(date), p.date))
       ELSE r4

search_posts(ps, query, title, content, author, date) ==
    LET r1 == IF query # <<>>
              THEN SelectSeq(ps, LAMBDA p :
                       \/ Contains(Lower(query), Lower(p.title))
                       \/ Contains(Lower(query), Lower(p.content))
                       \/ Contains(Lower(query), Lower(p.author))
                       \/ Contains(Lower(query), Lower(p.date)))
              ELSE ps
        r2 == IF title # <<>>
              THEN SelectSeq(r1, LAMBDA p : Contains(Lower(title), Lower(p.title)))
              ELSE r1
        r3 == IF content # <<>>
              THEN SelectSeq(r2, LAMBDA p : Contains(Lower(content), Lower(p.content)))
              ELSE r2
        r4 == IF author # <<>>
              THEN SelectSeq(r3, LAMBDA p : Contains(Lower(author), Lower(p.author)))
              ELSE r3
    IN IF date # <<>>
       THEN SelectSeq(r4, LAMBDA p : Contains(Lower(date), Lower(p.date)))
       ELSE r4

\* request.args.get(name, '').strip().lower()
SearchArg(v) == IF v = Absent THEN <<>> ELSE Lower(Strip(v))

search_posts_v1(ps, q) ==
    Unchanged(ps, [kind |-> "list", code |-> 200,
                   body |-> search_posts(ps, SearchArg(q.query), SearchArg(q.title),
                                         SearchArg(q.content), SearchArg(q.author),
                                         SearchArg(q.date))])

----------------------------------------------------------------------------
(* The limiter in front of the routes.  Every /api/v1 route is decorated    *)
(* with "10 per minute"; the limiter keys a counter by remote address and   *)
(* endpoint in its memory storage, and checks it before the API key and     *)
(* before the view function.                                                *)

RateLimit == 10
Window == 60

Clients == {"10.0.0.1", "10.0.0.2"}

\* the counter of key k is in the storage and its window has not ended
Live(k) == k \in DOMAIN hits /\ expiry[k] > now

\* the value the counter takes when one more request is counted
Counted(k) == IF Live(k) THEN hits[k] + 1 ELSE 1

\* limiter.limit("10 per minute") on a request of key k: count it, starting a
\* window if none is running; the request passes while the count is within
\* the limit
LimiterHit(k) ==
    /\ hits' = [j \in DOMAIN hits \cup {k} |-> IF j = k THEN Counted(k) ELSE hits[j]]
    /\ expiry' = [j \in DOMAIN expiry \cup {k} |->
                     IF j = k THEN (IF Live(k) THEN expiry[k] ELSE now + Window)
                     ELSE expiry[j]]

\* the limit compared one too low
AdmittedBelowLimit(k) == Counted(k) < RateLimit

Admitted(k) == Counted(k) <= RateLimit

\* get_posts_v1 sorting the stored list itself (list.sort) instead of a copy
DispatchSortingInPlace(rq) ==
    CASE rq.endpoint = "get_posts_v1" ->
            LET resp == get_posts_v1(posts, rq.q)
            IN IF resp.code = 200 /\ rq.q.sort # Absent
               THEN [posts |-> Sorted(posts, FieldName(Lower(Strip(rq.q.sort))),
                                      rq.q.direction # Absent
                                      /\ Lower(Strip(rq.q.direction)) = <<"d", "e", "s", "c">>),
                     save |-> FALSE, ret |-> resp]
               ELSE Unchanged(posts, resp)
      [] rq.endpoint = "get_post_by_id" -> get_post_by_id(posts, rq.id)
      [] rq.endpoint = "add_post_v1" -> add_post_v1(posts, rq.json)
      [] rq.endpoint = "delete_post_v1" -> delete_post_v1(posts, rq.id)
      [] rq.endpoint = "update_post_v1" -> update_post_v1(posts, rq.id, rq.json)
      [] rq.endpoint = "search_posts_v1" -> search_posts_v1(posts, rq.q)

\* what a request is answered when the limiter, validate_api_key and the
\* view function have run, and what the store is left as
Dispatch(rq) ==
    CASE rq.endpoint = "get_posts_v1" -> Unchanged(posts, get_posts_v1(posts, rq.q))
      [] rq.endpoint = "get_post_by_id" -> get_post_by_id(posts, rq.id)
      [] rq.endpoint = "add_post_v1" -> add_post_v1(posts, rq.json)
      [] rq.endpoint = "delete_post_v1" -> delete_post_v1(posts, rq.id)
      [] rq.endpoint = "update_post_v1" -> update_post_v1(posts, rq.id, rq.json)
      [] rq.endpoint = "search_posts_v1" -> search_posts_v1(posts, rq.q)

\* the view function run before the limiter's verdict is applied
HandleThenLimit(rq) ==
    IF ~Admitted(<<rq.client, rq.endpoint>>)
    THEN [Dispatch(rq) EXCEPT !.ret = Error(429, "Too Many Requests")]
    ELSE IF ~debug /\ ~rq.key_ok
    THEN Unchanged(posts, Error(401, "Unauthorized"))
    ELSE Dispatch(rq)

Handle(rq) ==
    IF ~Admitted(<<rq.client, rq.endpoint>>)
    THEN Unchanged(posts, Error(429, "Too Many Requests"))
    ELSE IF ~debug /\ ~rq.key_ok
    THEN Unchanged(posts, Error(401, "Unauthorized"))
    ELSE Dispatch(rq)

----------------------------------------------------------------------------
(* SpecApi: requests of two clients through the limiter, one at a time.    *)
(* A client keeps to the endpoint it called first, so that a run holds one *)
(* counter per client.  The first client sends up to MaxOver requests past *)
(* the limit in a window, the second at most MaxOther requests in a window. *)

NoJson == [title |-> Absent, content |-> Absent, author |-> Absent, date |-> Absent]

NoQuery == [page |-> Absent, per_page |-> Absent, sort |-> Absent, direction |-> Absent]

NoSearch == [query |-> Absent, title |-> Absent, content |-> Absent, author |-> Absent,
             date |-> Absent]

Date1 == <<"2", "0", "2", "4", "-", "0", "1", "-", "0", "5">>
Date2 == <<"2", "0", "2", "4", "-", "2", "-", "1">>

AddJson == [title |-> <<" ", "a">>, content |-> <<"a", " ">>, author |-> <<"a">>, date |-> Date1]

UpdateJson == [title |-> <<"b", " ">>, content |-> <<>>, author |-> Absent, date |-> Date2]

Request(c, e, id, json, q, ok) ==
    [client |-> c, endpoint |-> e, id |-> id, json |-> json, q |-> q, key_ok |-> ok]

ApiRequests ==
    { Request("10.0.0.1", "add_post_v1", 0, AddJson, NoQuery, TRUE),
      Request("10.0.0.1", "add_post_v1", 0, AddJson, NoQuery, FALSE),
      Request("10.0.0.1", "add_post_v1", 0, [AddJson EXCEPT !.title = Absent], NoQuery, TRUE),
      Request("10.0.0.1", "add_post_v1", 0,
              [AddJson EXCEPT !.date = <<"2", "0", "2", "4", "-", "0", "2", "-", "3", "0">>],
              NoQuery, TRUE),
      Request("10.0.0.1", "update_post_v1", 1, UpdateJson, NoQuery, TRUE),
      Request("10.0.0.1", "delete_post_v1", 1, NoJson, NoQuery, TRUE),
      Request("10.0.0.1", "get_posts_v1", 0, NoJson, NoQuery, TRUE),
      Request("10.0.0.1", "get_post_by_id", 1, NoJson, NoQuery, TRUE),
      Request("10.0.0.1", "search_posts_v1", 0, NoJson,
              [NoSearch EXCEPT !.query = <<" ", "A">>], TRUE),
      Request("10.0.0.2", "delete_post_v1", 1, NoJson, NoQuery, TRUE),
      Request("10.0.0.2", "delete_post_v1", 2, NoJson, NoQuery, FALSE) }

InitApi ==
    /\ InitStore({FileOf(<<Stored(1)>>)})
    /\ hits = Idle
    /\ expiry = Idle
    /\ now = 0
    /\ debug \in BOOLEAN
    /\ th = Idle
    /\ heap = Idle

\* one request, from the limiter to the response
Serve(Rqs, maxPosts, maxId, maxOver, maxOther) ==
    \E rq \in Rqs :
        LET k == <<rq.client, rq.endpoint>>
            r == Handle(rq)
        IN /\ \A j \in DOMAIN hits : j[1] = rq.client => j = k
           /\ Counted(k) <= IF rq.client = "10.0.0.1" THEN RateLimit + maxOver ELSE maxOther
           /\ Len(r.posts) <= maxPosts
           /\ MaxOf(Ids(r.posts), 0) <= maxId
           /\ LimiterHit(k)
           /\ Finish([op |-> rq.endpoint, id |-> rq.id, args |-> rq], r, "ok")
           /\ UNCHANGED <<now, th, heap, debug>>

\* half a window passes
Tick(maxTicks) ==
    /\ now < maxTicks * (Window \div 2)
    /\ now' = now + (Window \div 2)
    /\ UNCHANGED <<posts, disk, call, ret, writes, faults, hits, expiry, th, heap, debug, retired>>

NextApi ==
    \/ Serve(ApiRequests, MaxApiPosts, MaxApiId, MaxOver, MaxOther)
    \/ Tick(MaxTicks)

SpecApi == InitApi /\ [][NextApi]_vars

----------------------------------------------------------------------------
(* SpecViews: the view functions of the six routes, called one at a time   *)
(* by requests the limiter admits, with DEBUG on.                          *)

\* two posts as add_post stored them in an earlier run of the service
Post1 ==
    [id |-> 1, title |-> <<"A", "b">>, content |-> <<"c", "d">>, author |-> <<"a">>,
     date |-> Strftime(D1)]
Post2 ==
    [id |-> 2, title |-> <<"b">>, content |-> <<"B", "a">>, author |-> <<"d">>,
     date |-> Strftime(D2)]

ViewFiles == {FileOf(<<>>), FileOf(<<Post1, Post2>>)}

\* bodies of POST /api/v1/posts: complete; a blank title; an empty content;
\* no content; no title
AddBodies ==
    { AddJson,
      [AddJson EXCEPT !.title = <<" ">>],
      [AddJson EXCEPT !.content = <<>>],
      [AddJson EXCEPT !.content = Absent],
      [AddJson EXCEPT !.title = Absent] }

\* query strings of GET /api/v1/posts: none; sorted by title, descending; a
\* sort field that is not allowed; a page size of zero
ListQueries ==
    { NoQuery,
      [NoQuery EXCEPT !.sort = <<"t", "i", "t", "l", "e">>, !.direction = <<"d", "e", "s", "c">>],
      [NoQuery EXCEPT !.sort = <<"i", "d">>],
      [NoQuery EXCEPT !.per_page = <<"0">>] }

\* query strings of GET /api/v1/posts/search
SearchQueries ==
    { NoSearch,
      [NoSearch EXCEPT !.query = <<" ", "A">>],
      [NoSearch EXCEPT !.query = <<"2", "0", "2", "4", "-", "0", "2">>],
      [NoSearch EXCEPT !.query = <<"x">>],
      [NoSearch EXCEPT !.query = <<" ", " ">>, !.title = <<>>],
      [NoSearch EXCEPT !.title = <<"B", " ">>],
      [NoSearch EXCEPT !.title = <<"b">>, !.content = <<"b", "A">>],
      [NoSearch EXCEPT !.query = <<"b">>, !.author = <<"D">>],
      [NoSearch EXCEPT !.date = <<"-", "0", "1", "-">>],
      [NoSearch EXCEPT !.content = <<"c", "d">>, !.date = <<"2", "0", "2", "4">>] }

ViewRequests ==
    { Request("10.0.0.1", "add_post_v1", 0, j, NoQuery, TRUE) : j \in AddBodies }
    \cup { Request("10.0.0.1", "update_post_v1", id, UpdateJson, NoQuery, TRUE) : id \in {1, 3} }
    \cup { Request("10.0.0.1", "delete_post_v1", id, NoJson, NoQuery, TRUE) : id \in 1..3 }
    \cup { Request("10.0.0.1", "get_posts_v1", 0, NoJson, q, TRUE) : q \in ListQueries }
    \cup { Request("10.0.0.1", "get_post_by_id", id, NoJson, NoQuery, TRUE) : id \in {2, 3} }
    \cup { Request("10.0.0.1", "search_posts_v1", 0, NoJson, q, TRUE) : q \in SearchQueries }

InitViews ==
    /\ InitStore(ViewFiles)
    /\ InitLimiter
    /\ th = Idle
    /\ heap = Idle

\* one request, from the view function to the response
Respond(Rqs, maxPosts, maxId) ==
    \E rq \in Rqs :
        LET r == Dispatch(rq)
        IN /\ Len(r.posts) <= maxPosts
           /\ MaxOf(Ids(r.posts), 0) <= maxId
           /\ Finish([op |-> rq.endpoint, id |-> rq.id, args |-> rq], r, "ok")
           /\ UNCHANGED <<hits, expiry, now, th, heap, debug>>

NextViews == Respond(ViewRequests, MaxViewPosts, MaxViewId)

SpecViews == InitViews /\ [][NextViews]_vars

----------------------------------------------------------------------------
(* SpecConc: the record store under the threaded server.  app.run serves   *)
(* each request in a thread of its own and PostManager takes no lock, so   *)
(* the statements of two methods interleave.  The post dicts live in heap  *)
(* and posts holds references to them: delete_post builds a new list of    *)
(* the same dicts, update_post writes into the dict it found.              *)

Threads == 1..NThreads

\* the posts a list of references stands for
View(refs) == [i \in 1..Len(refs) |-> heap[refs[i]]]

ConcAddArgs == StoreAddArgs

ConcUpdateArgs ==
    { [title |-> <<"b", " ">>, content |-> <<"b">>, author |-> None, date |-> NoDate] }

ConcIds == 1..2

NoArgs == [title |-> None, content |-> None, author |-> None, date |-> NoDate]

ThreadIdle ==
    [pc |-> "idle", op |-> "none", id |-> 0, args |-> NoArgs, new_id |-> 0,
     original_length |-> 0, kept |-> <<>>, post |-> 0, ret |-> NoRet]

InitConc ==
    /\ heap = [r \in {1} |-> Stored(1)]
    /\ posts = <<1>>
    /\ disk = FileOf(<<Stored(1)>>)
    /\ call = NoCall
    /\ ret = NoRet
    /\ writes = 0
    /\ faults = 0
    /\ retired = {}
    /\ InitLimiter
    /\ th = [t \in Threads |-> ThreadIdle]

Others == <<call, ret, writes, faults, hits, expiry, now, debug, retired>>

\* a request arrives and its thread enters the PostManager method
Begin(t) ==
    /\ th[t].pc = "idle"
    /\ \/ \E a \in ConcAddArgs :
             th' = [th EXCEPT ![t].pc = "add_max", ![t].op = "add", ![t].args = a]
       \/ \E id \in ConcIds :
             th' = [th EXCEPT ![t].pc = "delete_len", ![t].op = "delete", ![t].id = id]
       \/ \E id \in ConcIds, a \in ConcUpdateArgs :
             th' = [th EXCEPT ![t].pc = "update_find", ![t].op = "update",
                              ![t].id = id, ![t].args = a]
       \/ th' = [th EXCEPT ![t].pc = "read_list", ![t].op = "read"]
    /\ UNCHANGED <<posts, disk, heap, Others>>

\* add_post, line 148: new_id = max(ids) + 1
AddMax(t) ==
    /\ th[t].pc = "add_max"
    /\ th' = [th EXCEPT ![t].pc = "add_append",
                        ![t].new_id = MaxOf(Ids(View(posts)), 0) + 1]
    /\ UNCHANGED <<posts, disk, heap, Others>>

\* add_post, lines 149-156: build the dict and append it
AddAppend(t) ==
    /\ th[t].pc = "add_append"
    /\ LET ref == Cardinality(DOMAIN heap) + 1
           a == th[t].args
           new_post == [id |-> th[t].new_id,
                        title |-> Strip(a.title),
                        content |-> Strip(a.content),
                        author |-> Strip(a.author),
                        date |-> Strftime(a.date)]
       IN /\ heap' = [r \in DOMAIN heap \cup {ref} |->
                         IF r = ref THEN new_post ELSE heap[r]]
          /\ posts' = Append(posts, ref)
          /\ th' = [th EXCEPT ![t].pc = "save", ![t].post = ref]
    /\ UNCHANGED <<disk, Others>>

\* delete_post, line 170: original_length = len(self.posts)
DeleteLen(t) ==
    /\ th[t].pc = "delete_len"
    /\ th' = [th EXCEPT ![t].pc = "delete_filter", ![t].original_length = Len(posts)]
    /\ UNCHANGED <<posts, disk, heap, Others>>

\* delete_post, line 171, right-hand side: the list comprehension
DeleteFilter(t) ==
    /\ th[t].pc = "delete_filter"
    /\ th' = [th EXCEPT ![t].pc = "delete_assign",
                        ![t].kept = SelectSeq(posts, LAMBDA r : heap[r].id # th[t].id)]
    /\ UNCHANGED <<posts, disk, heap, Others>>

\* delete_post, line 171, the assignment to self.posts
DeleteAssign(t) ==
    /\ th[t].pc = "delete_assign"
    /\ posts' = th[t].kept
    /\ th' = [th EXCEPT ![t].pc = "delete_test"]
    /\ UNCHANGED <<disk, heap, Others>>

\* delete_post, lines 172 and 175: len(self.posts) < original_length
DeleteTest(t) ==
    /\ th[t].pc = "delete_test"
    /\ th' = IF Len(posts) < th[t].original_length
             THEN [th EXCEPT ![t].pc = "save"]
             ELSE [th EXCEPT ![t].pc = "done",
                             ![t].ret = [kind |-> "error", code |-> 404, body |-> th[t].id]]
    /\ UNCHANGED <<posts, disk, heap, Others>>

\* update_post, lines 191-192 and 199: the search for the post
UpdateFind(t) ==
    /\ th[t].pc = "update_find"
    /\ th' = IF \E i \in 1..Len(posts) : heap[posts[i]].id = th[t].id
             THEN LET i == CHOOSE k \in 1..Len(posts) :
                              /\ heap[posts[k]].id = th[t].id
                              /\ \A j \in 1..(k - 1) : heap[posts[j]].id # th[t].id
                  IN [th EXCEPT ![t].pc = "update_title", ![t].post = posts[i]]
             ELSE [th EXCEPT ![t].pc = "done",
                             ![t].ret = [kind |-> "error", code |-> 404, body |-> th[t].id]]
    /\ UNCHANGED <<posts, disk, heap, Others>>

\* update_post, line 193
UpdateTitle(t) ==
    /\ th[t].pc = "update_title"
    /\ heap' = IF Truthy(th[t].args.title)
               THEN [heap EXCEPT ![th[t].post].title = Strip(th[t].args.title)]
               ELSE heap
    /\ th' = [th EXCEPT ![t].pc = "update_content"]
    /\ UNCHANGED <<posts, disk, Others>>

\* update_post, line 194
UpdateContent(t) ==
    /\ th[t].pc = "update_content"
    /\ heap' = IF Truthy(th[t].args.content)
               THEN [heap EXCEPT ![th[t].post].content = Strip(th[t].args.content)]
               ELSE heap
    /\ th' = [th EXCEPT ![t].pc = "update_author"]
    /\ UNCHANGED <<posts, disk, Others>>

\* update_post, line 195
UpdateAuthor(t) ==
    /\ th[t].pc = "update_author"
    /\ heap' = IF Truthy(th[t].args.author)
               THEN [heap EXCEPT ![th[t].post].author = Strip(th[t].args.author)]
               ELSE heap
    /\ th' = [th EXCEPT ![t].pc = "update_date"]
    /\ UNCHANGED <<posts, disk, Others>>

\* update_post, line 196
UpdateDate(t) ==
    /\ th[t].pc = "update_date"
    /\ heap' = IF TruthyDate(th[t].args.date)
               THEN [heap EXCEPT ![th[t].post].date = Strftime(th[t].args.date)]
               ELSE heap
    /\ th' = [th EXCEPT ![t].pc = "save"]
    /\ UNCHANGED <<posts, disk, Others>>

\* save_posts and the return that follows it (lines 157-158, 173-174, 197-198):
\* json.dump writes whatever self.posts holds at that moment
Save(t) ==
    /\ th[t].pc = "save"
    /\ disk' = FileOf(View(posts))
    /\ th' = [th EXCEPT ![t].pc = "done",
                 ![t].ret = IF th[t].op = "delete"
                            THEN [kind |-> "message", code |-> 200, body |-> th[t].id]
                            ELSE [kind |-> "post", code |-> 200, body |-> heap[th[t].post]]]
    /\ UNCHANGED <<posts, heap, Others>>

\* get_posts_v1 with no parameters, lines 266-278: the page is a new list of
\* the dicts self.posts holds
ReadList(t) ==
    /\ th[t].pc = "read_list"
    /\ th' = [th EXCEPT ![t].pc = "read_json", ![t].kept = Slice(posts, 0, 5)]
    /\ UNCHANGED <<posts, disk, heap, Others>>

\* get_posts_v1, lines 280-286: jsonify reads the fields of the dicts of the page
ReadJson(t) ==
    /\ th[t].pc = "read_json"
    /\ th' = [th EXCEPT ![t].pc = "done",
                 ![t].ret = [kind |-> "page", code |-> 200, body |-> View(th[t].kept)]]
    /\ UNCHANGED <<posts, disk, heap, Others>>

NextConc ==
    \E t \in Threads :
        \/ Begin(t)
        \/ AddMax(t)
        \/ AddAppend(t)
        \/ DeleteLen(t)
        \/ DeleteFilter(t)
        \/ DeleteAssign(t)
        \/ DeleteTest(t)
        \/ UpdateFind(t)
        \/ UpdateTitle(t)
        \/ UpdateContent(t)
        \/ UpdateAuthor(t)
        \/ UpdateDate(t)
        \/ Save(t)
        \/ ReadList(t)
        \/ ReadJson(t)

SpecConc == InitConc /\ [][NextConc]_vars

----------------------------------------------------------------------------
(* Properties of the record store *)

UniqueIds(ps) == \A i, j \in 1..Len(ps) : i # j => ps[i].id # ps[j].id

Mutations == {"add", "update", "delete"}

\* the largest id of a list, found by comparing the ids position by position
RECURSIVE LargestId(_)
LargestId(ps) ==
    IF ps = <<>> THEN 0
    ELSE LET rest == LargestId(Tail(ps))
         IN IF Head(ps).id > rest THEN Head(ps).id ELSE rest

\* the list without its k-th element
Without(ps, k) == SubSeq(ps, 1, k - 1) \o SubSeq(ps, k + 1, Len(ps))

\* C1: from a collection with unique ids, every add appends one record whose
\* id is the largest id of the collection before the add plus one (1 when the
\* collection was empty), and no two records of the collection share an id.
C1_AddStep ==
    (call'.op = "add") =>
        /\ Len(posts') = Len(posts) + 1
        /\ SubSeq(posts', 1, Len(posts)) = posts
        /\ posts'[Len(posts')].id = LargestId(posts) + 1
        /\ (posts = <<>> => posts'[1].id = 1)

C1_IdAssignment == [](UniqueIds(posts)) /\ [][C1_AddStep]_vars

\* an add made after post 2 of three had been deleted: its id is 4, not 3
C1_Witness ==
    /\ call.op = "add"
    /\ Len(posts) = 3
    /\ posts[1].id = 1 /\ posts[2].id = 3 /\ posts[3].id = 4

\* C4: update or delete of an id no record has answers not-found (404),
\* leaves the collection exactly as it was and writes nothing to storage.
C4_NotFoundStep ==
    (call'.op \in {"update", "delete"} /\ call'.id \notin Ids(posts)) =>
        /\ ret'.kind = "error" /\ ret'.code = 404
        /\ posts' = posts
        /\ disk' = disk
        /\ writes' = 0

C4_NotFoundLeavesStore == [][C4_NotFoundStep]_vars

\* a delete of an unknown id answered 404 on a collection of two posts
C4_Witness ==
    /\ call.op = "delete"
    /\ ret.code = 404
    /\ Len(posts) = 2
    /\ call.id \notin Ids(posts)

\* C5: after a successful delete(id) no record has that id, and the other
\* records are all there, unchanged and in the order they had.
C5_DeleteStep ==
    (call'.op = "delete" /\ ret'.code = 200) =>
        /\ call'.id \notin Ids(posts')
        /\ \E k \in 1..Len(posts) :
              /\ posts[k].id = call'.id
              /\ posts' = Without(posts, k)

C5_DeleteRemovesOnlyThatId == [][C5_DeleteStep]_vars

\* the middle one of three posts was deleted: the first and the last remain
C5_Witness ==
    /\ call.op = "delete" /\ call.id = 2
    /\ ret.code = 200
    /\ Len(posts) = 2
    /\ posts[1].id = 1 /\ posts[2].id = 3

\* C8: when an add, update or delete has returned successfully, it has made
\* exactly one write of the whole collection, and the stored collection is
\* the in-memory collection with the change in it.
C8_SavedOnSuccess ==
    (call.op \in Mutations /\ ret.code = 200) =>
        /\ writes = 1
        /\ disk = FileOf(posts)

\* an update returned successfully after an earlier save had failed
C8_Witness ==
    /\ call.op = "update"
    /\ ret.code = 200
    /\ faults = 1
    /\ \E i \in 1..Len(posts) : posts[i].id = call.id /\ posts[i].title = <<"b">>

\* C9: when the write of an add, update or delete fails, the operation ends
\* in the error and the in-memory change stays: the collection every later
\* read sees has the new record, lacks the deleted one, or has the updated
\* fields, while the file holds what it held before or nothing readable.
C9_FailedSaveStep ==
    (ret'.kind = "raised") =>
        /\ call'.op \in Mutations
        /\ writes' = 0
        /\ disk' \in {disk, NoFile}
        /\ call'.op = "add" =>
              /\ Len(posts') = Len(posts) + 1
              /\ posts'[Len(posts')].title = Strip(call'.args.title)
        /\ call'.op = "delete" =>
              /\ call'.id \in Ids(posts)
              /\ call'.id \notin Ids(posts')
        /\ call'.op = "update" =>
              \E i \in 1..Len(posts') :
                  /\ posts'[i].id = call'.id
                  /\ Strip(call'.args.title) # <<>> =>
                        posts'[i].title = Strip(call'.args.title)
                  /\ call'.args.date # NoDate =>
                        posts'[i].date = Strftime(call'.args.date)

C9_NoRollback == [][C9_FailedSaveStep]_vars

\* a delete whose save failed: the post is gone from memory, not from the file
C9_Witness ==
    /\ call.op = "delete"
    /\ ret.kind = "raised"
    /\ disk.ok
    /\ call.id \in Ids(disk.data)
    /\ call.id \notin Ids(posts)

\* C3: update of an existing id sets each of title, content and author to
\* the trimmed value supplied when that is non-empty, and keeps the old value
\* when the field is omitted, empty or blank.
C3_UpdateStep ==
    (call'.op = "update" /\ call'.id \in Ids(posts)) =>
        \E i \in 1..Len(posts) :
            /\ posts[i].id = call'.id
            /\ Len(posts') = Len(posts)
            /\ \A f \in {"title", "content", "author"} :
                  LET v == call'.args[f]
                  IN IF v # None /\ Strip(v) # <<>>
                     THEN posts'[i][f] = Strip(v)
                     ELSE posts'[i][f] = posts[i][f]

C3_BlankKeepsOldValue == [][C3_UpdateStep]_vars

\* C18: a successful update(id, ...) changes nothing but the title, content,
\* author and date of the record with that id: the collection has as many
\* records as before, every record keeps its id and its position, and every
\* record with another id keeps all its fields.
C18_UpdateStep ==
    (call'.op = "update" /\ ret'.code = 200) =>
        /\ Len(posts') = Len(posts)
        /\ \A i \in 1..Len(posts) :
              /\ posts'[i].id = posts[i].id
              /\ posts[i].id # call'.id => posts'[i] = posts[i]
        /\ \E i \in 1..Len(posts) : posts[i].id = call'.id /\ ret'.body = posts'[i]

C18_UpdateFrame == [][C18_UpdateStep]_vars

\* the last of three posts was updated; the two before it are as stored
C18_Witness ==
    /\ call.op = "update" /\ call.id = 4
    /\ ret.code = 200
    /\ Len(posts) = 3
    /\ posts[1] = Stored(1) /\ posts[2] = Stored(3)
    /\ posts[3].id = 4 /\ posts[3].title = <<"b">> /\ posts[3].date = Strftime(D2)

\* C13, as claimed: an id that a delete removed while it was not the largest
\* id of the collection is never given to a new record by a later add.
C13_ReassignStep ==
    (call'.op = "add" /\ Len(posts') = Len(posts) + 1) =>
        posts'[Len(posts')].id \notin retired

C13_NonMaxNeverReassigned == [][C13_ReassignStep]_vars

\* C13, amended: an add gives an id that a delete removed back out only when
\* no record with that id or a larger one is in the collection at the moment
\* of the add; an id that was not the largest when deleted comes back once
\* every larger id has been deleted as well.
C13_AmendedStep ==
    (/\ call'.op = "add"
     /\ Len(posts') = Len(posts) + 1
     /\ posts'[Len(posts')].id \in retired) =>
        \A i \in Ids(posts) : i < posts'[Len(posts')].id

C13_ReassignedOnlyAboveAll == [][C13_AmendedStep]_vars

\* an add has been given an id that was deleted while a larger id existed
C13_Witness ==
    /\ call.op = "add"
    /\ posts # <<>>
    /\ posts[Len(posts)].id \in retired
    /\ ret.code = 200

----------------------------------------------------------------------------
(* Properties of the record store under concurrent writers *)

Done(t) == th[t].pc = "done"

\* C2: under any interleaving of concurrent writers no two records have the
\* same id, and no writer's completed mutation is lost: the post of every
\* add that returned is in the collection unless a delete asked for its id,
\* and the id of every delete that returned success is gone unless an add
\* was given it.
C2_AtomicMutations ==
    /\ UniqueIds(View(posts))
    /\ \A t \in Threads :
          (Done(t) /\ th[t].op = "add") =>
              \/ \E i \in 1..Len(posts) : posts[i] = th[t].post
              \/ \E u \in Threads : th[u].op = "delete" /\ th[u].id = th[t].new_id
    /\ \A t \in Threads :
          (Done(t) /\ th[t].op = "delete" /\ th[t].ret.code = 200) =>
              \/ th[t].id \notin Ids(View(posts))
              \/ \E u \in Threads : th[u].op = "add" /\ th[u].new_id = th[t].id

\* the collection the server starts with, which is the collection before
\* the first mutation
Before == <<Stored(1)>>

\* the collection once the mutation of thread u is complete
After(u) ==
    LET a == th[u].args
    IN CASE th[u].op = "add" -> add_post(Before, a.title, a.content, a.author, a.date).posts
         [] th[u].op = "delete" -> delete_post(Before, th[u].id).posts
         [] th[u].op = "update" ->
                update_post(Before, th[u].id, a.title, a.content, a.author, a.date).posts
         [] OTHER -> Before

\* C14: a listing that runs while one mutation runs returns the whole
\* collection as it was before the mutation or the whole collection as it is
\* after it, never a record with only some of an update's fields applied.
C14_ReadsSeeWholeSnapshots ==
    \A t, u \in Threads :
        (/\ t # u
         /\ Done(t) /\ th[t].op = "read"
         /\ \A v \in Threads \ {t, u} : th[v].op = "none") =>
            th[t].ret.body \in {Before, After(u)}

----------------------------------------------------------------------------
(* Properties of the paginated listing *)

\* the page number and page size a query asks for
AskedPage(q) == IF q.page = Absent THEN 1 ELSE ParseInt(q.page)
AskedSize(q) == IF q.per_page = Absent THEN 5 ELSE ParseInt(q.per_page)

\* the query is well formed: integers, an allowed sort field or none, an
\* allowed direction or none
WellFormed(q) ==
    /\ q.page = Absent \/ IsInt(q.page)
    /\ q.per_page = Absent \/ IsInt(q.per_page)
    /\ q.sort = Absent \/ Lower(Strip(q.sort)) \in SortFields
    /\ q.direction = Absent
          \/ Lower(Strip(q.direction)) \in {<<"a", "s", "c">>, <<"d", "e", "s", "c">>}

\* the collection in the order the query asks for
SortedView(ps, q) ==
    IF q.sort = Absent THEN ps
    ELSE Sorted(ps, FieldName(Lower(Strip(q.sort))),
                q.direction # Absent /\ Lower(Strip(q.direction)) = <<"d", "e", "s", "c">>)

\* C10: for page >= 1 and pageSize >= 1 over T >= 1 records, totalPages is
\* ceil(T / pageSize), the least n with n * pageSize >= T; the listing fails
\* with the invalid-page error exactly when page > totalPages, and otherwise
\* returns the records at positions (page-1)*pageSize+1 .. min(page*pageSize, T)
\* of the sorted view together with page, pageSize, T and totalPages.
C10_Pagination ==
    (/\ call.op = "list"
     /\ WellFormed(call.args)
     /\ AskedPage(call.args) >= 1
     /\ AskedSize(call.args) >= 1
     /\ Len(posts) >= 1) =>
        LET page == AskedPage(call.args)
            size == AskedSize(call.args)
            T == Len(posts)
            totalPages == CHOOSE n \in 1..T : n * size >= T /\ (n - 1) * size < T
            first == (page - 1) * size + 1
            last == IF page * size < T THEN page * size ELSE T
            view == SortedView(posts, call.args)
        IN /\ (ret.code = 400) <=> (page > totalPages)
           /\ ret.code \in {200, 400}
           /\ ret.code = 400 => ret.body = "Invalid page number"
           /\ ret.code = 200 =>
                 /\ ret.body.page = page
                 /\ ret.body.per_page = size
                 /\ ret.body.total_posts = T
                 /\ ret.body.total_pages = totalPages
                 /\ ret.body.posts = [i \in 1..(last - first + 1) |-> view[first + i - 1]]

\* eleven posts, five to a page: page 3 of 3 holds the eleventh post alone
C10_Witness ==
    /\ call.op = "list"
    /\ Len(posts) = 11
    /\ call.args.page = <<"3">>
    /\ call.args.per_page = Absent
    /\ ret.code = 200
    /\ ret.body.total_pages = 3
    /\ ret.body.posts = <<posts[11]>>

\* C11: when the collection is empty the listing is never an error: for every
\* page number asked for (page >= 1, pageSize >= 1) it answers success with no
\* items and totalPages 1, not the invalid-page error.
C11_EmptyNeverInvalid ==
    (/\ call.op = "list"
     /\ WellFormed(call.args)
     /\ AskedPage(call.args) >= 1
     /\ AskedSize(call.args) >= 1
     /\ Len(posts) = 0) =>
        /\ ret.code = 200
        /\ ret.body.posts = <<>>
        /\ ret.body.total_posts = 0
        /\ ret.body.total_pages = 1

\* the key text fields are compared by under the claim: the text in lower case
TextKeyLess(a, b) == StrLess(Lower(a), Lower(b))

\* the key dates are compared by under the claim: the calendar date
DateKeyLess(a, b) ==
    LET x == ParseDate(a)
        y == ParseDate(b)
    IN \/ x.y < y.y
       \/ (x.y = y.y /\ x.m < y.m)
       \/ (x.y = y.y /\ x.m = y.m /\ x.d < y.d)

KeyLess(f, a, b) == IF f = "date" THEN DateKeyLess(a, b) ELSE TextKeyLess(a, b)

\* the query's integers parse and its page size is not zero, so that the
\* listing gets as far as its sort parameters and its page arithmetic
Countable(q) ==
    /\ q.page = Absent \/ IsInt(q.page)
    /\ q.per_page = Absent \/ IsInt(q.per_page)
    /\ AskedSize(q) # 0

SortText(q) == IF q.sort = Absent THEN <<>> ELSE Lower(Strip(q.sort))

DirectionText(q) == IF q.direction = Absent THEN <<>> ELSE Lower(Strip(q.direction))

\* C15: a sort field outside {title, content, author, date} fails with the
\* invalid-sort-field error and a direction outside {asc, desc} with the
\* invalid-sort-direction error; a listing sorted by a text field is ordered
\* by the lower-cased text and one sorted by date by the calendar date,
\* ascending for asc or no direction and descending for desc; with no sort
\* field the listing keeps the store's order.
C15_Sorting ==
    (call.op = "list" /\ Countable(call.args)) =>
        LET q == call.args
            page == AskedPage(q)
            size == AskedSize(q)
        IN /\ (SortText(q) # <<>> /\ SortText(q) \notin SortFields) =>
                 ret = Error(400, "Invalid sort field")
           /\ (SortText(q) = <<>> \/ SortText(q) \in SortFields) =>
                 /\ DirectionText(q) \notin {<<>>, <<"a", "s", "c">>, <<"d", "e", "s", "c">>} =>
                       ret = Error(400, "Invalid sort direction")
                 /\ ret.code = 200 =>
                       IF SortText(q) = <<>>
                       THEN ret.body.posts = Slice(posts, (page - 1) * size, page * size)
                       ELSE LET f == FieldName(SortText(q))
                                items == ret.body.posts
                            IN \A i, j \in 1..Len(items) :
                                  i < j =>
                                     IF DirectionText(q) = <<"d", "e", "s", "c">>
                                     THEN ~KeyLess(f, items[i][f], items[j][f])
                                     ELSE ~KeyLess(f, items[j][f], items[i][f])

\* the text of a page number, as it stands in a query string
PageText(n) == IF n < 10 THEN <<Digit(n)>> ELSE <<Digit(n \div 10), Digit(n % 10)>>

\* the items of page k of the listing the query asks for
PageItems(ps, q, k) == get_posts_v1(ps, [q EXCEPT !.page = PageText(k)]).body.posts

RECURSIVE PagesFromTo(_, _, _, _)
\* the items of pages a..b, one page after the other
PagesFromTo(ps, q, a, b) ==
    IF a > b THEN <<>> ELSE PageItems(ps, q, a) \o PagesFromTo(ps, q, a + 1, b)

\* C19: for a collection, a sort setting and a pageSize >= 1, the pages
\* 1..totalPages partition the sorted view: the pages before the one
\* returned, the page returned and the pages after it, in order, are the
\* sorted view; every record is on exactly one page; every page but the last
\* holds pageSize items, and the last holds at least one item when the
\* collection is not empty.
C19_PagesPartition ==
    (/\ call.op = "list"
     /\ WellFormed(call.args)
     /\ AskedSize(call.args) >= 1
     /\ ret.code = 200) =>
        LET q == call.args
            size == AskedSize(q)
            page == ret.body.page
            n == ret.body.total_pages
            view == SortedView(posts, q)
        IN /\ page \in 1..n
           /\ PagesFromTo(posts, q, 1, page - 1) \o ret.body.posts
                 \o PagesFromTo(posts, q, page + 1, n) = view
           /\ \A i \in 1..Len(posts) :
                 Cardinality({k \in 1..n : posts[i] \in
                     {PageItems(posts, q, k)[j] : j \in 1..Len(PageItems(posts, q, k))}}) = 1
           /\ \A k \in 1..(n - 1) : Len(PageItems(posts, q, k)) = size
           /\ posts # <<>> => Len(PageItems(posts, q, n)) >= 1

\* eleven posts sorted by title, three to a page: page 2 of 4 was returned
C19_Witness ==
    /\ call.op = "list"
    /\ Len(posts) = 11
    /\ call.args.sort = <<" ", "T", "i", "t", "l", "e">>
    /\ call.args.page = <<"2">>
    /\ call.args.per_page = <<"3">>
    /\ ret.code = 200
    /\ ret.body.total_pages = 4
    /\ Len(ret.body.posts) = 3

----------------------------------------------------------------------------
(* Properties of the view functions *)

\* a required text field of an add is missing, empty, or blank once trimmed
Blank(v) == v = Absent \/ Strip(v) = <<>>

\* C12: an add whose title or content is missing, empty or blank after
\* trimming fails with the validation error (400), leaves the collection as
\* it was and writes nothing; and no record of the collection ever has an
\* empty title or content.
C12_AddStep ==
    (/\ call'.op = "add_post_v1"
     /\ Blank(call'.args.json.title) \/ Blank(call'.args.json.content)) =>
        /\ ret'.code = 400
        /\ posts' = posts
        /\ disk' = disk
        /\ writes' = 0

C12_NoEmptyText ==
    \A i \in 1..Len(posts) : posts[i].title # <<>> /\ posts[i].content # <<>>

C12_BlankAddRejected == [](C12_NoEmptyText) /\ [][C12_AddStep]_vars

\* two characters are the same letter, whatever their case
SameLetter(a, b) ==
    \/ a = b
    \/ {a, b} \in {{"A", "a"}, {"B", "b"}, {"D", "d"}, {"T", "t"}}

\* the term occurs in the text, whatever the case of either
Occurs(term, text) ==
    \E k \in 0..(Len(text) - Len(term)) :
        \A i \in 1..Len(term) : SameLetter(term[i], text[k + i])

\* a search term as the request gives it: absent, or the text without the
\* blanks around it
Term(v) == IF v = Absent THEN <<>> ELSE Strip(v)

SearchFields == {"title", "content", "author", "date"}

\* the record satisfies every predicate the search supplies
Matches(p, q) ==
    /\ Term(q.query) # <<>> => \E f \in SearchFields : Occurs(Term(q.query), p[f])
    /\ \A f \in SearchFields : Term(q[f]) # <<>> => Occurs(Term(q[f]), p[f])

\* C16: a search returns, in store order, exactly the records that satisfy
\* all the predicates supplied: a non-empty general query must occur, in any
\* case, in one of title, content, author, date; each non-empty per-field
\* term must occur, in any case, in its own field; an empty or absent
\* predicate constrains nothing, so a search without predicates returns the
\* whole collection.
C16_Search ==
    (call.op = "search_posts_v1") =>
        /\ ret.code = 200
        /\ ret.body = SelectSeq(posts, LAMBDA p : Matches(p, call.args.q))
        /\ (\A f \in SearchFields \cup {"query"} : Term(call.args.q[f]) = <<>>) =>
              ret.body = posts

\* a title term and a content term in upper case: of the two stored posts,
\* both of which have the title term, only the second has the content term
C16_Witness ==
    /\ call.op = "search_posts_v1"
    /\ call.args.q = [NoSearch EXCEPT !.title = <<"b">>, !.content = <<"b", "A">>]
    /\ posts = <<Post1, Post2>>
    /\ ret.body = <<Post2>>

Reads == {"get_posts_v1", "get_post_by_id", "search_posts_v1"}

\* C17: no read, whether it succeeds or fails, changes the stored
\* collection: the records, their fields and their order are the same after
\* a listing, a get by id or a search as before it, the file is the same,
\* and nothing is written.
C17_ReadStep ==
    (call'.op \in Reads) =>
        /\ posts' = posts
        /\ disk' = disk
        /\ writes' = 0

C17_ReadsLeaveStore == [][C17_ReadStep]_vars

\* a listing sorted by title, descending, returned the two stored posts in
\* the reverse of the order the store keeps
C17_Witness ==
    /\ call.op = "get_posts_v1"
    /\ call.args.q.sort = <<"t", "i", "t", "l", "e">>
    /\ ret.code = 200
    /\ ret.body.posts = <<Post2, Post1>>
    /\ posts = <<Post1, Post2>>
    /\ disk = FileOf(posts)

----------------------------------------------------------------------------
(* Properties of the limiter *)

Endpoints ==
    {"get_posts_v1", "get_post_by_id", "add_post_v1", "delete_post_v1",
     "update_post_v1", "search_posts_v1"}

\* the step serves a request
Served == call'.op \in Endpoints /\ (hits' # hits \/ expiry' # expiry)

\* the limiter key of the request the step serves
ServedKey == <<call'.args.client, call'.args.endpoint>>

\* the window of key k is running: it was opened by a request less than
\* Window seconds ago
InWindow(k) == k \in DOMAIN hits /\ now < expiry[k]

\* C6: with the limit of RateLimit requests per window of an operation, a
\* request that is the n-th of its client inside a running window is admitted
\* when n <= RateLimit and rejected with 429 when n = RateLimit + 1 (or more);
\* once the window has elapsed the next request of the client is admitted,
\* opens a new window and sets the counter to 1.
C6_LimitStep ==
    Served =>
        LET k == ServedKey
        IN IF InWindow(k)
           THEN /\ hits'[k] = hits[k] + 1
                /\ expiry'[k] = expiry[k]
                /\ hits'[k] <= RateLimit => ret'.code # 429
                /\ hits'[k] > RateLimit => ret'.code = 429
           ELSE /\ hits'[k] = 1
                /\ expiry'[k] = now + Window
                /\ ret'.code # 429

C6_RateLimit == [][C6_LimitStep]_vars

\* the eleventh request of a client inside one window was rejected
C6_Witness ==
    /\ call.op \in Endpoints
    /\ ret.code = 429
    /\ hits[<<call.args.client, call.args.endpoint>>] = RateLimit + 1
    /\ now < expiry[<<call.args.client, call.args.endpoint>>]

\* C7: a request rejected with 429 leaves the collection and the file as
\* they were and writes nothing, whatever the operation; and a request
\* changes no counter of another client, and is rejected only on the count
\* of its own client's requests.
C7_RejectedStep ==
    Served =>
        /\ ret'.code = 429 =>
              /\ posts' = posts
              /\ disk' = disk
              /\ writes' = 0
        /\ \A j \in DOMAIN hits :
              j[1] # call'.args.client => (hits'[j] = hits[j] /\ expiry'[j] = expiry[j])
        /\ ret'.code = 429 => (InWindow(ServedKey) /\ hits[ServedKey] >= RateLimit)

C7_RejectedNeverReachesStore == [][C7_RejectedStep]_vars

\* a well-formed add was rejected with 429 while the collection had room for
\* it, and the other client has a window of its own running
C7_Witness ==
    /\ call.op = "add_post_v1"
    /\ call.args.json = AddJson
    /\ call.args.key_ok
    /\ ret.code = 429
    /\ Len(posts) = 1
    /\ disk = FileOf(posts)
    /\ <<"10.0.0.2", "delete_post_v1">> \in DOMAIN hits

====
